---- MODULE Spec2Model ----
(***************************************************************************)
(* Shape arithmetic and shape-composition contract of models.py:           *)
(* compute_conv_output_width / compute_conv_output_size, and the shapes    *)
(* that ConvBlock, FullyConnectedBlock and ConvNet give to the tensors     *)
(* flowing through them.  A tensor is modelled by its shape only; the      *)
(* learnable weights and the dropout rate do not influence any shape.      *)
(***************************************************************************)
EXTENDS Integers, Sequences, FiniteSets, TLC

(***************************************************************************)
(* Bounds of the model and the sets the inputs are drawn from.             *)
(***************************************************************************)
MaxLen == 4
MaxWidth == 29
MaxMonoWidth == 40
MaxRank == 4

KernelVals == {2, 5}
StrideVals == {1, 2}
ZeroStrideSeqs == {<<0>>, <<1, 0>>, <<0, 2>>, <<2, 1, 0>>}
PadVals == {0, 1}
DilVals == {1, 2}
ChannelVals == {3, 64}
ShapeDims == {-1, 0, 1, 3, 4, 12, 20, 28, 29}
PairDims == {1, 3, 4, 20, 28}
OutputSizes == {10}
BatchSizes == {8}
TensorChannels == {1, 3}
TensorDims == {4, 12, 20, 28, 29}
Slots == {1, 2}

SeqsUpTo(S, n) == UNION {[1..k -> S] : k \in 0..n}
SeqsOfLen(S, n) == [1..n -> S]

KernelSeqs == SeqsUpTo(KernelVals, MaxLen)
\* strides >= 1 of every length, and a few sequences holding a zero stride
StrideSeqs == SeqsUpTo(StrideVals, MaxLen) \cup ZeroStrideSeqs

(***************************************************************************)
(* Python values and primitives used by the code.                          *)
(***************************************************************************)
\* Outcome of a call: a returned value or a raised exception.
Returned(v) == [status |-> "returned", value |-> v, error |-> "", at |-> <<>>]
Raised(e, where) == [status |-> "raised", value |-> 0, error |-> e, at |-> where]
NoCall == [status |-> "none", value |-> 0, error |-> "", at |-> <<>>]

Min(a, b) == IF a <= b THEN a ELSE b

\* zip(a, b): pairs up to the shorter of the two sequences.
Zip(a, b) == [i \in 1..Min(Len(a), Len(b)) |-> <<a[i], b[i]>>]

\* n * t for a tuple t (tuple repetition).
RECURSIVE Repeat(_, _)
Repeat(n, t) == IF n <= 0 THEN <<>> ELSE t \o Repeat(n - 1, t)

\* a / b on ints: the exact quotient, kept as numerator and denominator
\* (b > 0 here; b = 0 raises ZeroDivisionError before this is used).
TrueDiv(a, b) == <<a, b>>

\* q + n for a quotient q and an int n.
AddInt(q, n) == <<q[1] + n * q[2], q[2]>>

\* Slips: the magnitude of the floor; rounding toward zero (int(q)).
MathFloorAbs(q) == IF q[1] \div q[2] < 0 THEN -(q[1] \div q[2]) ELSE q[1] \div q[2]
MathFloorTrunc(q) == IF q[1] >= 0 THEN q[1] \div q[2] ELSE -((-q[1]) \div q[2])
\* math.floor(q): the largest int <= q.
MathFloor(q) == q[1] \div q[2]

(***************************************************************************)
(* compute_conv_output_width, models.py 30-47                              *)
(***************************************************************************)
RECURSIVE WidthLoop(_, _, _, _)
WidthLoop(width, pairs, padding, dilation) ==
    IF pairs = <<>> THEN Returned(width)
    ELSE LET kernel_size == Head(pairs)[1]
             stride == Head(pairs)[2]
             w1 == width + (2 * padding) - (dilation * (kernel_size - 1)) - 1
         IN IF stride = 0 THEN Raised("ZeroDivisionError", <<"compute_conv_output_width">>)
            ELSE WidthLoop(MathFloor(AddInt(TrueDiv(w1, stride), 1)),
                           Tail(pairs), padding, dilation)

compute_conv_output_width(input_width, kernel_sizes, strides, padding, dilation) ==
    WidthLoop(input_width, Zip(kernel_sizes, strides), padding, dilation)

(***************************************************************************)
(* compute_conv_output_size, models.py 17-27                               *)
(***************************************************************************)
\* A slip: width * 2 for width ** 2.
compute_conv_output_size_double(input_width, kernel_sizes, strides, n_output_channels, padding, dilation) ==
    LET width == compute_conv_output_width(input_width, kernel_sizes, strides, padding, dilation)
    IN IF width.status = "raised" THEN width
       ELSE Returned(n_output_channels * (width.value * 2))

compute_conv_output_size(input_width, kernel_sizes, strides, n_output_channels, padding, dilation) ==
    LET width == compute_conv_output_width(input_width, kernel_sizes, strides, padding, dilation)
    IN IF width.status = "raised" THEN width
       ELSE Returned(n_output_channels * (width.value ^ 2))

(***************************************************************************)
(* Layers, by the shapes they accept and produce.  A 4-d tensor is the     *)
(* tuple <<N, Ch, H, W>>, a 2-d tensor the tuple <<N, F>>.  Dropout and    *)
(* ReLU are element-wise and keep the shape.                               *)
(***************************************************************************)
\* Conv2d(in_channels, out_channels, kernel_size): stride 1, no padding,
\* dilation 1.  Allocating the weight fails for a negative channel count.
Conv2d_init(in_channels, out_channels, kernel_size) ==
    IF in_channels < 0 \/ out_channels < 0
    THEN Raised("RuntimeError", <<"conv">>)
    ELSE Returned([in_channels |-> in_channels, out_channels |-> out_channels,
                   kernel_size |-> kernel_size, stride |-> 1, padding |-> 0,
                   dilation |-> 1])

Conv2d_forward(conv, x) ==
    LET h == x[3] + 2 * conv.padding - conv.dilation * (conv.kernel_size - 1) - 1
        w == x[4] + 2 * conv.padding - conv.dilation * (conv.kernel_size - 1) - 1
    IN IF x[2] # conv.in_channels THEN Raised("RuntimeError: channels", <<"conv">>)
       ELSE IF h < 0 \/ w < 0 THEN Raised("RuntimeError: kernel size", <<"conv">>)
       ELSE Returned(<<x[1], conv.out_channels,
                       (h \div conv.stride) + 1, (w \div conv.stride) + 1>>)

\* MaxPool2d(kernel_size): stride = kernel_size, no padding, floor mode.
MaxPool2d_init(kernel_size) == [kernel_size |-> kernel_size, stride |-> kernel_size]

MaxPool2d_forward(pool, x) ==
    LET h == ((x[3] - pool.kernel_size) \div pool.stride) + 1
        w == ((x[4] - pool.kernel_size) \div pool.stride) + 1
    IN IF h <= 0 \/ w <= 0 THEN Raised("RuntimeError: output size", <<"maxpool">>)
       ELSE Returned(<<x[1], x[2], h, w>>)

\* Linear(in_features, out_features)
Linear_init(in_features, out_features) ==
    IF in_features < 0 \/ out_features < 0
    THEN Raised("RuntimeError", <<"fc">>)
    ELSE Returned([in_features |-> in_features, out_features |-> out_features])

\* A slip: no test of the last dimension against in_features.
Linear_forward_unchecked(fc, x) == Returned(<<x[1], fc.out_features>>)

Linear_forward(fc, x) ==
    IF x[Len(x)] # fc.in_features THEN Raised("RuntimeError: shapes", <<"fc">>)
    ELSE Returned(<<x[1], fc.out_features>>)

\* x.flatten(start_dim=1)
RECURSIVE Product(_)
Product(t) == IF t = <<>> THEN 1 ELSE Head(t) * Product(Tail(t))

Flatten(x) == <<x[1], Product(Tail(x))>>

(***************************************************************************)
(* ConvBlock, models.py 50-71                                              *)
(***************************************************************************)
ConvBlock_init(n_in, n_out, kernel_size) ==
    LET conv == Conv2d_init(n_in, n_out, kernel_size)
    IN IF conv.status = "raised" THEN conv
       ELSE Returned([conv |-> conv.value, maxpool |-> MaxPool2d_init(2)])

ConvBlock_forward(block, x) ==
    LET conv == Conv2d_forward(block.conv, x)
    IN IF conv.status = "raised" THEN conv
       ELSE MaxPool2d_forward(block.maxpool, conv.value)

(***************************************************************************)
(* FullyConnectedBlock, models.py 74-93                                    *)
(***************************************************************************)
FullyConnectedBlock_init(n_in, n_out) ==
    LET fc == Linear_init(n_in, n_out)
    IN IF fc.status = "raised" THEN fc ELSE Returned([fc |-> fc.value])

FullyConnectedBlock_forward(block, x) == Linear_forward(block.fc, x)

(***************************************************************************)
(* ConvNet, models.py 96-135                                               *)
(***************************************************************************)
ConvNetKernelSizes == Repeat(2, <<5, 2>>)
ConvNetStrides == Repeat(2, <<1, 2>>)

Within(name, r) == Raised(r.error, <<name>> \o r.at)

\* models.py 113-120: size the fully-connected stage, then build the layers.
ConvNet_build(n_input_channels, image_width, output_size) ==
    LET fc1_size == compute_conv_output_size(image_width, ConvNetKernelSizes,
                                             ConvNetStrides, 64, 0, 1)
        block1 == ConvBlock_init(n_input_channels, 32, 5)
        block2 == ConvBlock_init(32, 64, 5)
        block3 == FullyConnectedBlock_init(fc1_size.value, 128)
        fc == Linear_init(128, output_size)
    IN IF fc1_size.status = "raised" THEN Within("compute_conv_output_size", fc1_size)
       ELSE IF block1.status = "raised" THEN Within("block1", block1)
       ELSE IF block2.status = "raised" THEN Within("block2", block2)
       ELSE IF block3.status = "raised" THEN Within("block3", block3)
       ELSE IF fc.status = "raised" THEN Within("fc", fc)
       ELSE Returned([block1 |-> block1.value, block2 |-> block2.value,
                      block3 |-> block3.value, fc |-> fc.value])

\* A slip: the width read from the last entry, whatever the rank.
ConvNet_init_lastdim(input_shape, output_size) ==
    IF input_shape = <<>> THEN Raised("IndexError", <<"input_shape">>)
    ELSE ConvNet_build(IF Len(input_shape) = 2 THEN 1 ELSE input_shape[1],
                       input_shape[Len(input_shape)], output_size)

\* A slip: the rank-3 form takes the height where the rank-2 form takes the width.
ConvNet_init_height(input_shape, output_size) ==
    IF Len(input_shape) = 2
    THEN ConvNet_build(1, input_shape[2], output_size)
    ELSE IF Len(input_shape) # 3
    THEN Raised("ValueError", <<"input_shape">>)
    ELSE ConvNet_build(input_shape[1], input_shape[2], output_size)

\* models.py 107-111: unpacking a sequence of any other length than 3 in the
\* else branch raises ValueError.
ConvNet_init(input_shape, output_size) ==
    IF Len(input_shape) = 2
    THEN ConvNet_build(1, input_shape[2], output_size)
    ELSE IF Len(input_shape) # 3
    THEN Raised("ValueError", <<"input_shape">>)
    ELSE ConvNet_build(input_shape[1], input_shape[3], output_size)

\* models.py 130-134: the stages of forward, in order.
Stages == <<"block1", "block2", "flatten", "block3", "fc">>

ApplyStage(net, stage, x) ==
    CASE stage = "block1" -> ConvBlock_forward(net.block1, x)
      [] stage = "block2" -> ConvBlock_forward(net.block2, x)
      [] stage = "flatten" -> Returned(Flatten(x))
      [] stage = "block3" -> FullyConnectedBlock_forward(net.block3, x)
      [] stage = "fc" -> Linear_forward(net.fc, x)

\* The outcome of forward, with the shape of x after each completed stage.
RECURSIVE RunStages(_, _, _, _)
RunStages(net, i, x, shapes) ==
    IF i > Len(Stages)
    THEN [status |-> "returned", value |-> x, error |-> "", at |-> <<>>, shapes |-> shapes]
    ELSE LET r == ApplyStage(net, Stages[i], x)
         IN IF r.status = "raised"
            THEN [status |-> "raised", value |-> <<>>, error |-> r.error,
                  at |-> <<Stages[i]>> \o r.at, shapes |-> shapes]
            ELSE RunStages(net, i + 1, r.value, Append(shapes, r.value))

ConvNet_forward(net, x) == RunStages(net, 1, x, <<>>)

(***************************************************************************)
(* State.                                                                  *)
(***************************************************************************)
VARIABLES
    calls,    \* calls[s]: the invocation of a shape utility made in slot s
    nets,     \* nets[s]: the construction of a ConvNet made in slot s
    fwd       \* the latest forward call: the network, the tensor, the outcome

vars == <<calls, nets, fwd>>

NoArgs == [fn |-> "none", input_width |-> 0, kernel_sizes |-> <<>>, strides |-> <<>>,
           n_output_channels |-> 0, padding |-> 0, dilation |-> 1]
Idle == [args |-> NoArgs, result |-> NoCall]

NoNet == [args |-> [input_shape |-> <<>>, output_size |-> 0], result |-> NoCall]
NoFwd == [slot |-> 0, x |-> <<>>,
          result |-> [status |-> "none", value |-> <<>>, error |-> "", at |-> <<>>,
                      shapes |-> <<>>]]

Init ==
    /\ calls = [s \in Slots |-> Idle]
    /\ nets = [s \in Slots |-> NoNet]
    /\ fwd = NoFwd

\* The arguments of a call, as drawn from the model's input sets.
WidthArgs ==
    [fn : {"width"}, input_width : 0..MaxWidth,
     kernel_sizes : KernelSeqs, strides : StrideSeqs,
     n_output_channels : {0}, padding : PadVals, dilation : DilVals]

SizeArgs ==
    [fn : {"size"}, input_width : 0..MaxWidth,
     kernel_sizes : KernelSeqs, strides : StrideSeqs,
     n_output_channels : ChannelVals, padding : PadVals, dilation : DilVals]

\* One invocation of compute_conv_output_width in slot s, on arguments from inputs.
CallWidth(s, inputs) ==
    /\ calls[s] = Idle
    /\ \E a \in inputs :
        calls' = [calls EXCEPT ![s] =
            [args |-> a,
             result |-> compute_conv_output_width(a.input_width, a.kernel_sizes, a.strides,
                                                  a.padding, a.dilation)]]
    /\ UNCHANGED <<nets, fwd>>

\* One invocation of compute_conv_output_size in slot s, on arguments from inputs.
CallSize(s, inputs) ==
    /\ calls[s] = Idle
    /\ \E a \in inputs :
        calls' = [calls EXCEPT ![s] =
            [args |-> a,
             result |-> compute_conv_output_size(a.input_width, a.kernel_sizes, a.strides,
                                                 a.n_output_channels, a.padding,
                                                 a.dilation)]]
    /\ UNCHANGED <<nets, fwd>>

WidthCall == CallWidth(1, WidthArgs)

SizeCall == CallSize(1, SizeArgs)

Next == WidthCall \/ SizeCall

Spec == Init /\ [][Next]_vars

(***************************************************************************)
(* Two invocations of compute_conv_output_width with ConvNet's kernel and  *)
(* stride sequences, on positive input widths.                             *)
(***************************************************************************)
StdWidthArgs ==
    [fn : {"width"}, input_width : 1..MaxMonoWidth,
     kernel_sizes : {ConvNetKernelSizes}, strides : {ConvNetStrides},
     n_output_channels : {0}, padding : {0}, dilation : {1}]

StdWidthCall == \E s \in Slots : CallWidth(s, StdWidthArgs)

NextMono == StdWidthCall

SpecMono == Init /\ [][NextMono]_vars

(***************************************************************************)
(* Construction of a ConvNet and forward calls on it.                      *)
(***************************************************************************)
NetInputs == [input_shape : SeqsUpTo(ShapeDims, MaxRank), output_size : OutputSizes]

PairInputs ==
    [input_shape : SeqsOfLen(PairDims, 2) \cup SeqsOfLen(PairDims, 3),
     output_size : OutputSizes]

Tensors == BatchSizes \X TensorChannels \X TensorDims \X TensorDims

\* ConvNet(input_shape, output_size) in slot s, on arguments from inputs.
Construct(s, inputs) ==
    /\ nets[s] = NoNet
    /\ \E a \in inputs :
        nets' = [nets EXCEPT ![s] =
            [args |-> a, result |-> ConvNet_init(a.input_shape, a.output_size)]]
    /\ UNCHANGED <<calls, fwd>>

\* forward(x) on the network constructed in slot s, for a tensor from xs.
Forward(s, xs) ==
    /\ nets[s].result.status = "returned"
    /\ \E x \in xs :
        fwd' = [slot |-> s, x |-> x, result |-> ConvNet_forward(nets[s].result.value, x)]
    /\ UNCHANGED <<calls, nets>>

NetConstruct == Construct(1, NetInputs)

NetForward == Forward(1, Tensors)

NextNet == NetConstruct \/ NetForward

SpecNet == Init /\ [][NextNet]_vars

\* Two networks constructed side by side.
PairConstruct == \E s \in Slots : Construct(s, PairInputs)

NextPair == PairConstruct

SpecPair == Init /\ [][NextPair]_vars

(***************************************************************************)
(* Reference definitions used to state the properties.                     *)
(***************************************************************************)
\* One reduction step as the specification states it.
RefStep(width, kernel_size, stride, padding, dilation) ==
    ((width + 2 * padding - dilation * (kernel_size - 1) - 1) \div stride) + 1

\* The width after the first n (kernel_size, stride) pairs.
RECURSIVE RefWidth(_, _, _, _, _, _)
RefWidth(input_width, kernel_sizes, strides, padding, dilation, n) ==
    IF n = 0 THEN input_width
    ELSE RefStep(RefWidth(input_width, kernel_sizes, strides, padding, dilation, n - 1),
                 kernel_sizes[n], strides[n], padding, dilation)

StridesPositive(strides) == \A i \in 1..Len(strides) : strides[i] >= 1

IsWidthCall(c, input_width, kernel_sizes, strides) ==
    /\ c.args.fn = "width" /\ c.args.input_width = input_width
    /\ c.args.kernel_sizes = kernel_sizes /\ c.args.strides = strides
    /\ c.args.padding = 0 /\ c.args.dilation = 1

\* Some width computed inside the loop (after any processed pair) is <= 0.
SomeWidthNonPositive(a) ==
    \E n \in 1..Min(Len(a.kernel_sizes), Len(a.strides)) :
        /\ StridesPositive(SubSeq(a.strides, 1, n))
        /\ RefWidth(a.input_width, a.kernel_sizes, a.strides, a.padding, a.dilation, n) <= 0

(***************************************************************************)
(* C1: for sequences of equal length with strides >= 1,                    *)
(* compute_conv_output_width returns the width obtained from input_width   *)
(* by replacing it, pair by pair in order, by                              *)
(* floor((width + 2*padding - dilation*(kernel_size-1) - 1) / stride) + 1; *)
(* on (28, (5,2,5,2), (1,2,1,2)) it passes through 24, 12, 8 and returns 4.*)
(***************************************************************************)
C1_WidthIsIteratedFormula ==
    LET c == calls[1]
        a == c.args
    IN /\ (a.fn = "width" /\ Len(a.kernel_sizes) = Len(a.strides)
                /\ StridesPositive(a.strides))
            => c.result = Returned(RefWidth(a.input_width, a.kernel_sizes, a.strides,
                                            a.padding, a.dilation, Len(a.strides)))
       /\ IsWidthCall(c, 28, <<5>>, <<1>>) => c.result = Returned(24)
       /\ IsWidthCall(c, 28, <<5, 2>>, <<1, 2>>) => c.result = Returned(12)
       /\ IsWidthCall(c, 28, <<5, 2, 5>>, <<1, 2, 1>>) => c.result = Returned(8)
       /\ IsWidthCall(c, 28, <<5, 2, 5, 2>>, <<1, 2, 1, 2>>) => c.result = Returned(4)

C1_Witness ==
    /\ IsWidthCall(calls[1], 28, <<5, 2, 5, 2>>, <<1, 2, 1, 2>>)
    /\ calls[1].result = Returned(4)

(***************************************************************************)
(* C2: a call in which some intermediate width is <= 0 raises an error     *)
(* instead of returning, so that compute_conv_output_size never returns a  *)
(* positive count derived from a non-positive width.  Stated for calls     *)
(* with a positive input_width, sequences of equal length and strides >= 1.*)
(***************************************************************************)
C2_NonPositiveWidthRaises ==
    LET c == calls[1]
    IN (/\ c.args.fn # "none" /\ c.args.input_width >= 1
        /\ Len(c.args.kernel_sizes) = Len(c.args.strides)
        /\ StridesPositive(c.args.strides)
        /\ SomeWidthNonPositive(c.args))
        => c.result.status = "raised"

(***************************************************************************)
(* C3: a call with kernel_sizes and strides of different lengths fails     *)
(* instead of returning a width computed from the first min(len) pairs.    *)
(* Stated for calls with a positive input_width and strides >= 1.          *)
(***************************************************************************)
C3_LengthMismatchRaises ==
    LET c == calls[1]
    IN (/\ c.args.fn # "none" /\ c.args.input_width >= 1
        /\ StridesPositive(c.args.strides)
        /\ Len(c.args.kernel_sizes) # Len(c.args.strides))
        => c.result.status = "raised"

(***************************************************************************)
(* C9: compute_conv_output_size returns n_output_channels times the square *)
(* of compute_conv_output_width on the same arguments (and fails exactly   *)
(* when that fails); on (28, (5,2,5,2), (1,2,1,2), 64) it returns 1024.    *)
(***************************************************************************)
C9_SizeIsChannelsTimesWidthSquared ==
    LET c == calls[1]
        a == c.args
        w == compute_conv_output_width(a.input_width, a.kernel_sizes, a.strides,
                                       a.padding, a.dilation)
    IN /\ (a.fn = "size" /\ w.status = "returned")
            => c.result = Returned(a.n_output_channels * w.value * w.value)
       /\ (a.fn = "size" /\ w.status = "raised") => c.result.status = "raised"
       /\ (a.fn = "size" /\ a.input_width = 28 /\ a.kernel_sizes = <<5, 2, 5, 2>>
                /\ a.strides = <<1, 2, 1, 2>> /\ a.n_output_channels = 64
                /\ a.padding = 0 /\ a.dilation = 1)
            => c.result = Returned(1024)

C9_Witness ==
    LET a == calls[1].args
    IN /\ a.fn = "size" /\ a.input_width = 28 /\ a.kernel_sizes = <<5, 2, 5, 2>>
       /\ a.strides = <<1, 2, 1, 2>> /\ a.n_output_channels = 64
       /\ a.padding = 0 /\ a.dilation = 1
       /\ calls[1].result = Returned(1024)

(***************************************************************************)
(* C8: with kernel_sizes (5,2,5,2), strides (1,2,1,2) and default padding  *)
(* and dilation, compute_conv_output_width is monotonically non-decreasing *)
(* in input_width over positive input_width.                               *)
(***************************************************************************)
C8_WidthMonotone ==
    \A s \in Slots, t \in Slots :
        (/\ calls[s].args.fn = "width" /\ calls[t].args.fn = "width"
         /\ calls[s].args.input_width <= calls[t].args.input_width)
        => /\ calls[s].result.status = "returned"
           /\ calls[t].result.status = "returned"
           /\ calls[s].result.value <= calls[t].result.value

C8_Witness ==
    /\ calls[1].args.fn = "width" /\ calls[2].args.fn = "width"
    /\ calls[1].args.input_width = 3 /\ calls[2].args.input_width = 28
    /\ calls[1].result.value < calls[2].result.value

(***************************************************************************)
(* Reference definitions for the network properties.                       *)
(***************************************************************************)
Constructed(s) == nets[s].result.status = "returned"

\* The non-batch shape a network declared with input_shape expects.
DeclaredShape(input_shape) ==
    IF Len(input_shape) = 2 THEN <<1>> \o input_shape ELSE input_shape

\* The flattened feature count computed at construction (in_features of block3).
Fc1Size(s) == nets[s].result.value.block3.fc.in_features

\* The spatial size left by (5, stride 1), (2, stride 2), (5, stride 1), (2, stride 2).
AfterConvStack(n) == RefWidth(n, <<5, 2, 5, 2>>, <<1, 2, 1, 2>>, 0, 1, 4)

FlattenReached == fwd.result.status # "none" /\ Len(fwd.result.shapes) >= 3

\* The flattened size of the tensor that left block1, block2 and flatten.
FlatSize == fwd.result.shapes[3][2]

(***************************************************************************)
(* C4: for every input_shape of rank 2 or 3 with which construction        *)
(* succeeds, fc1_size equals the flattened size of the tensor forward      *)
(* produces after block1, block2 and flatten from a tensor of exactly the  *)
(* declared shape, i.e. 64 * H2 * W2 with H2 and W2 obtained from the      *)
(* declared H and W independently.                                         *)
(***************************************************************************)
C4_Fc1SizeMatchesRuntime ==
    (/\ fwd.slot = 1 /\ Constructed(1)
     /\ Tail(fwd.x) = DeclaredShape(nets[1].args.input_shape)
     /\ FlattenReached)
    => /\ Fc1Size(1) = FlatSize
       /\ Fc1Size(1) = 64 * AfterConvStack(fwd.x[3]) * AfterConvStack(fwd.x[4])

(***************************************************************************)
(* C5: constructing ConvNet with an input_shape of rank 2 or 3 that holds  *)
(* a non-positive dimension, or whose width makes the computed convolution *)
(* output width zero or negative, fails during construction, before any    *)
(* block is instantiated.                                                  *)
(***************************************************************************)
C5_BadDimensionsRejected ==
    LET shape == nets[1].args.input_shape
    IN (/\ nets[1] # NoNet /\ Len(shape) \in {2, 3}
        /\ \/ \E i \in 1..Len(shape) : shape[i] <= 0
           \/ AfterConvStack(shape[Len(shape)]) <= 0)
       => /\ nets[1].result.status = "raised"
          /\ nets[1].result.at[1] \notin {"block1", "block2", "block3", "fc"}

(***************************************************************************)
(* C6: constructing ConvNet with an input_shape whose length is not 2 or 3 *)
(* fails with an error at construction and produces no network (so no      *)
(* forward call is ever made on it).                                       *)
(***************************************************************************)
C6_BadRankRejected ==
    (nets[1] # NoNet /\ Len(nets[1].args.input_shape) \notin {2, 3})
    => /\ nets[1].result.status = "raised"
       /\ nets[1].result.error = "ValueError"
       /\ fwd = NoFwd

C6_Witness ==
    /\ nets[1] # NoNet /\ Len(nets[1].args.input_shape) = 4
    /\ nets[1].result.status = "raised"

(***************************************************************************)
(* C7 as stated: a forward call on a tensor whose non-batch shape          *)
(* disagrees with the declared input_shape (of positive dimensions) fails  *)
(* with an error raised by the affine projection of block3, and never      *)
(* returns an output.                                                      *)
(***************************************************************************)
C7_DisagreeingShapeFailsInBlock3 ==
    (/\ fwd.slot = 1 /\ Constructed(1)
     /\ \A i \in 1..Len(nets[1].args.input_shape) : nets[1].args.input_shape[i] >= 1
     /\ Tail(fwd.x) # DeclaredShape(nets[1].args.input_shape))
    => /\ fwd.result.status = "raised"
       /\ fwd.result.at = <<"block3", "fc">>

(***************************************************************************)
(* C7 amended: a forward call whose tensor passes block1 and block2 and    *)
(* flattens to a size other than fc1_size fails with the shape error of    *)
(* block3's affine projection; block3's affine projection raises in no     *)
(* other case; and every forward call that returns an output has a         *)
(* flattened size equal to fc1_size.                                       *)
(***************************************************************************)
C7_FlatSizeMismatchFailsInBlock3 ==
    (fwd.slot = 1 /\ Constructed(1))
    => /\ (FlattenReached /\ FlatSize # Fc1Size(1))
            => /\ fwd.result.status = "raised"
               /\ fwd.result.at = <<"block3", "fc">>
               /\ fwd.result.error = "RuntimeError: shapes"
       /\ (fwd.result.status = "raised" /\ fwd.result.at = <<"block3", "fc">>)
            => (FlattenReached /\ FlatSize # Fc1Size(1))
       /\ fwd.result.status = "returned"
            => (FlattenReached /\ FlatSize = Fc1Size(1))

C7_Witness ==
    /\ fwd.slot = 1 /\ Constructed(1)
    /\ nets[1].args.input_shape = <<1, 28, 28>>
    /\ fwd.x = <<8, 1, 20, 20>>
    /\ fwd.result.status = "raised"
    /\ fwd.result.at = <<"block3", "fc">>

(***************************************************************************)
(* C10: a ConvNet constructed with the rank-2 input_shape (H, W) and one   *)
(* constructed with the rank-3 input_shape (C, H, W) compute the identical *)
(* flattened feature count; the count does not depend on the channel count *)
(* or on whether it is given, and the rank-2 form fixes the input channel  *)
(* count of block1 to 1.                                                   *)
(***************************************************************************)
SpatialDims(input_shape) ==
    <<input_shape[Len(input_shape) - 1], input_shape[Len(input_shape)]>>

C10_Rank2And3SameFc1Size ==
    \A s \in Slots, t \in Slots :
        (Constructed(s) /\ Constructed(t))
        => /\ SpatialDims(nets[s].args.input_shape) = SpatialDims(nets[t].args.input_shape)
                => Fc1Size(s) = Fc1Size(t)
           /\ Len(nets[s].args.input_shape) = 2
                => nets[s].result.value.block1.conv.in_channels = 1
           /\ Len(nets[s].args.input_shape) = 3
                => nets[s].result.value.block1.conv.in_channels = nets[s].args.input_shape[1]

C10_Witness ==
    /\ Constructed(1) /\ Constructed(2)
    /\ nets[1].args.input_shape = <<28, 28>>
    /\ nets[2].args.input_shape = <<3, 28, 28>>
    /\ Fc1Size(1) = 1024 /\ Fc1Size(2) = 1024
====
